---- MODULE Spec2Model ----
(***************************************************************************)
(* A model of replay_commits.py: the commit selector (replay_commits), the *)
(* replay executor (push_commits_one_by_one) and the blob restoration rule *)
(* (export_blob), over a small git repository and working directory.       *)
(*                                                                         *)
(* Strings are sequences of one-character strings, so that the code's      *)
(* string operations (startswith, dirname, join, the f-strings) are        *)
(* computed on characters.  The script runs with --working-repo-dir left   *)
(* at its default "./", so a repository-relative path and a path relative  *)
(* to the current directory name the same file.  The log file of          *)
(* load_logging_config, replay.log, is then a file of the working          *)
(* directory unless --log-path names a directory outside it; its content   *)
(* is one mark per record written.                                         *)
(***************************************************************************)
EXTENDS Integers, Sequences, FiniteSets, TLC

(***************************************************************************)
(* Characters and strings                                                  *)
(***************************************************************************)

\* The characters the model uses, in ASCII order.
Alphabet ==
    << "#", "%", "-", ".", "/", "0", "1", "2", "3", "4", "5", "6", "7", "8",
       "9", ":", "@", "A", "B", "M", "U", "a", "b", "c", "d", "e", "f", "g",
       "h", "i", "k", "l", "m", "n", "o", "p", "r", "s", "t", "u", "x", "y" >>

Ord(ch) == CHOOSE i \in 1..Len(Alphabet) : Alphabet[i] = ch

\* the element of a one-element set: Only({e(x) : x \in {v}}) is e(v), with v
\* evaluated once
Only(S) == CHOOSE x \in S : TRUE

RECURSIVE StrLess(_, _)
\* bytewise comparison of two strings, as git and Python order them
StrLess(a, b) ==
    IF b = <<>> THEN FALSE
    ELSE IF a = <<>> THEN TRUE
    ELSE IF a[1] = b[1] THEN StrLess(Tail(a), Tail(b))
    ELSE Ord(a[1]) < Ord(b[1])

\* str.startswith
StartsWith(s, prefix) ==
    /\ Len(prefix) <= Len(s)
    /\ SubSeq(s, 1, Len(prefix)) = prefix

\* the index of the last "/" of s, 0 when it has none (str.rfind + 1)
LastSlash(s) ==
    LET at == {i \in 1..Len(s) : s[i] = "/"}
    IN  IF at = {} THEN 0 ELSE CHOOSE i \in at : \A j \in at : j <= i

RECURSIVE RStripSlash(_)
RStripSlash(s) ==
    IF s # <<>> /\ s[Len(s)] = "/" THEN RStripSlash(SubSeq(s, 1, Len(s) - 1))
    ELSE s

AllSlashes(s) == \A i \in 1..Len(s) : s[i] = "/"

\* posixpath.split: (head, tail)
PathSplit(p) ==
    LET i    == LastSlash(p)
        head == SubSeq(p, 1, i)
        tail == SubSeq(p, i + 1, Len(p))
    IN  << IF head # <<>> /\ ~AllSlashes(head) THEN RStripSlash(head) ELSE head,
           tail >>

\* os.path.dirname
Dirname(p) == PathSplit(p)[1]

\* os.path.join of two components
PathJoin(a, b) ==
    IF b # <<>> /\ b[1] = "/" THEN b
    ELSE IF a = <<>> \/ a[Len(a)] = "/" THEN a \o b
    ELSE a \o <<"/">> \o b

RECURSIVE Segments(_)
\* the components of a path between its slashes
Segments(p) ==
    LET at == {i \in 1..Len(p) : p[i] = "/"}
    IN  IF at = {} THEN << p >>
        ELSE LET i == CHOOSE k \in at : \A j \in at : k <= j
             IN  << SubSeq(p, 1, i - 1) >> \o Segments(SubSeq(p, i + 1, Len(p)))

RECURSIVE JoinSegs(_)
JoinSegs(segs) ==
    IF segs = <<>> THEN <<>>
    ELSE IF Len(segs) = 1 THEN segs[1]
    ELSE segs[1] \o <<"/">> \o JoinSegs(Tail(segs))

\* the components without the empty ones and the "." ones
RECURSIVE KeepSegs(_)
KeepSegs(segs) ==
    IF segs = <<>> THEN <<>>
    ELSE IF segs[1] = <<>> \/ segs[1] = <<".">> THEN KeepSegs(Tail(segs))
    ELSE << segs[1] >> \o KeepSegs(Tail(segs))

\* The file a relative path names, as the kernel resolves it from the current
\* directory: empty and "." components dropped.  <<>> is the directory itself.
Resolve(p) == JoinSegs(KeepSegs(Segments(p)))

\* the proper ancestors of a resolved path, nearest last
Ancestors(n) ==
    LET segs == Segments(n)
    IN  [k \in 1..(Len(segs) - 1) |-> JoinSegs(SubSeq(segs, 1, k))]

Depth(n) == Len(Segments(n))

(***************************************************************************)
(* The working directory: a function from resolved paths to entries.       *)
(***************************************************************************)

FileEntry(data) == [kind |-> "file", data |-> data]
DirEntry == [kind |-> "dir", data |-> <<>>]

\* "none", "file" or "dir": what stat() finds at path p (a path that ends
\* with a slash names a directory or nothing)
KindAt(fs, p) ==
    IF p = <<>> THEN "none"
    ELSE LET n == Resolve(p)
         IN  IF n = <<>> THEN "dir"
             ELSE IF n \notin DOMAIN fs THEN "none"
             ELSE IF p[Len(p)] = "/" /\ fs[n].kind = "file" THEN "none"
             ELSE fs[n].kind

\* os.path.exists, os.path.isfile, os.path.isdir
PathExists(fs, p) == KindAt(fs, p) # "none"
IsFile(fs, p) == KindAt(fs, p) = "file"
IsDir(fs, p) == KindAt(fs, p) = "dir"

\* the error of a system call that must walk to the parent of resolved path n:
\* "ok", "NotADirectoryError" (a component is a file), "FileNotFoundError"
ParentError(fs, n) ==
    LET anc == Ancestors(n)
    IN  IF \E k \in 1..Len(anc) : anc[k] \in DOMAIN fs /\ fs[anc[k]].kind = "file"
        THEN "NotADirectoryError"
        ELSE IF \E k \in 1..Len(anc) : anc[k] \notin DOMAIN fs
        THEN "FileNotFoundError"
        ELSE "ok"

FsWithout(fs, gone) == [q \in DOMAIN fs \ gone |-> fs[q]]
FsWith(fs, n, entry) == [q \in DOMAIN fs \cup {n} |-> IF q = n THEN entry ELSE fs[q]]

\* the entries below resolved directory n
Below(fs, n) == {q \in DOMAIN fs : StartsWith(q, n \o <<"/">>)}

\* os.remove
OsRemove(fs, p) ==
    LET n == Resolve(p)
    IN  IF p = <<>> THEN [fs |-> fs, err |-> "FileNotFoundError"]
        ELSE IF n = <<>> THEN [fs |-> fs, err |-> "IsADirectoryError"]
        ELSE IF ParentError(fs, n) # "ok" THEN [fs |-> fs, err |-> ParentError(fs, n)]
        ELSE IF n \notin DOMAIN fs THEN [fs |-> fs, err |-> "FileNotFoundError"]
        ELSE IF fs[n].kind = "dir" THEN [fs |-> fs, err |-> "IsADirectoryError"]
        ELSE [fs |-> FsWithout(fs, {n}), err |-> "ok"]

\* os.mkdir
OsMkdir(fs, p) ==
    LET n == Resolve(p)
    IN  IF p = <<>> THEN [fs |-> fs, err |-> "FileNotFoundError"]
        ELSE IF n = <<>> THEN [fs |-> fs, err |-> "FileExistsError"]
        ELSE IF ParentError(fs, n) # "ok" THEN [fs |-> fs, err |-> ParentError(fs, n)]
        ELSE IF n \in DOMAIN fs THEN [fs |-> fs, err |-> "FileExistsError"]
        ELSE [fs |-> FsWith(fs, n, DirEntry), err |-> "ok"]

RECURSIVE OsMakedirs(_, _)
\* os.makedirs(name, exist_ok=True)
OsMakedirs(fs, name) ==
    LET s1   == PathSplit(name)
        s2   == IF s1[2] = <<>> THEN PathSplit(s1[1]) ELSE s1
        head == s2[1]
        tail == s2[2]
        climb == head # <<>> /\ tail # <<>> /\ ~PathExists(fs, head)
        \* the mkdir of the last component, after the parents were made
        Last(up) ==
            Only({ IF made.err = "ok" THEN made
                   ELSE IF IsDir(up.fs, name) THEN [fs |-> up.fs, err |-> "ok"]
                   ELSE made : made \in {OsMkdir(up.fs, name)} })
    IN  Only({ IF up.err \notin {"ok", "FileExistsError"} THEN up
               ELSE IF climb /\ tail = <<".">> THEN [up EXCEPT !.err = "ok"]
               ELSE Last(up) :
               up \in {IF climb THEN OsMakedirs(fs, head) ELSE [fs |-> fs, err |-> "ok"]} })

\* open(path, 'wb') followed by write(data)
WriteFile(fs, p, data) ==
    LET n == Resolve(p)
    IN  IF p = <<>> THEN [fs |-> fs, err |-> "FileNotFoundError"]
        ELSE IF n = <<>> THEN [fs |-> fs, err |-> "IsADirectoryError"]
        ELSE IF ParentError(fs, n) # "ok" THEN [fs |-> fs, err |-> ParentError(fs, n)]
        ELSE IF n \in DOMAIN fs /\ fs[n].kind = "dir" THEN [fs |-> fs, err |-> "IsADirectoryError"]
        ELSE [fs |-> FsWith(fs, n, FileEntry(data)), err |-> "ok"]

\* shutil.rmtree of an existing directory
Rmtree(fs, p) ==
    LET n == Resolve(p)
    IN  IF ~IsDir(fs, p) \/ n = <<>> THEN [fs |-> fs, err |-> "NotADirectoryError"]
        ELSE [fs |-> FsWithout(fs, Below(fs, n) \cup {n}), err |-> "ok"]

\* shutil.copytree(src, dst): dst must not exist, its parents are created
Copytree(fs, src, dst) ==
    LET s == Resolve(src)
        d == Resolve(dst)
        copied == {d} \cup {d \o SubSeq(q, Len(s) + 1, Len(q)) : q \in Below(fs, s)}
        from(q) == IF q = d THEN s ELSE s \o SubSeq(q, Len(d) + 1, Len(q))
    IN  IF ~IsDir(fs, src) THEN [fs |-> fs, err |-> "FileNotFoundError"]
        ELSE IF PathExists(fs, dst) THEN [fs |-> fs, err |-> "FileExistsError"]
        ELSE IF ParentError(fs, d) # "ok" THEN [fs |-> fs, err |-> ParentError(fs, d)]
        ELSE [fs  |-> [q \in DOMAIN fs \cup copied |->
                          IF q \in copied THEN fs[from(q)] ELSE fs[q]],
              err |-> "ok"]

(***************************************************************************)
(* export_blob                                                             *)
(***************************************************************************)

\* ExportBlobPrepare with whatever occupies the destination removed
ExportBlobPrepareRemoving(fs, dst_path) ==
    LET directory == Dirname(dst_path)
    IN  IF PathExists(fs, dst_path) THEN OsRemove(fs, dst_path)
        ELSE OsMakedirs(fs, directory)

\* lines 244-256: make room for the destination
ExportBlobPrepare(fs, dst_path) ==
    LET directory == Dirname(dst_path)
        \* lines 253-256: the except clause
        Retry(first) ==
            Only({ IF removed.err # "ok" THEN removed
                   ELSE OsMakedirs(removed.fs, directory) :
                   removed \in {OsRemove(first.fs, directory)} })
    IN  IF PathExists(fs, dst_path)
        THEN IF IsFile(fs, dst_path) THEN OsRemove(fs, dst_path)
             ELSE [fs |-> fs, err |-> "ok"]
        ELSE Only({ IF first.err # "FileExistsError" THEN first ELSE Retry(first) :
                    first \in {OsMakedirs(fs, directory)} })

\* export_blob that writes only where nothing was
export_blobOnlyNew(fs, data, dst_path) ==
    IF PathExists(fs, dst_path) THEN [fs |-> fs, err |-> "ok"]
    ELSE Only({ IF ready.err # "ok" THEN ready
                ELSE WriteFile(ready.fs, dst_path, data) :
                ready \in {ExportBlobPrepare(fs, dst_path)} })

\* export_blob(data, dst_path): the directory after the call and the exception
\* it raised ("ok" when it returned)
export_blob(fs, data, dst_path) ==
    Only({ IF ready.err # "ok" THEN ready
           ELSE IF ~IsDir(ready.fs, dst_path) THEN WriteFile(ready.fs, dst_path, data)
           ELSE ready :
           ready \in {ExportBlobPrepare(fs, dst_path)} })

(***************************************************************************)
(* Literals                                                                *)
(***************************************************************************)

MAIN == <<"m", "a", "i", "n">>
CIRCLECI == <<".", "c", "i", "r", "c", "l", "e", "c", "i">>
\* --working-repo-dir, at its default
working_repo_dir == <<".", "/">>
\* line 57: the file name of the log
LOG_FILE == <<"r", "e", "p", "l", "a", "y", ".", "l", "o", "g">>
\* GITHUB_TOKEN and --github-repo-slug
token == <<"t", "@", "k">>
github_repo == <<"o", "/", "r">>
ORIGIN_URL == <<"g", "i", "t", "@", "h", ":">> \o github_repo

Digit(n) == <<"0", "1", "2", "3", "4", "5", "6", "7", "8", "9">>[n + 1]

\* the decimal digits of n, zero-padded to width w
RECURSIVE Padded(_, _)
Padded(n, w) == IF w = 0 THEN <<>> ELSE Padded(n \div 10, w - 1) \o << Digit(n % 10) >>

\* date.isoformat() of the day `days` days after 1970-01-01
IsoFormat(days) ==
    LET z   == days + 719468
        era == z \div 146097
        doe == z - era * 146097
        yoe == (doe - doe \div 1460 + doe \div 36524 - doe \div 146096) \div 365
        doy == doe - (365 * yoe + yoe \div 4 - yoe \div 100)
        mp  == (5 * doy + 2) \div 153
        d   == doy - (153 * mp + 2) \div 5 + 1
        m   == IF mp < 10 THEN mp + 3 ELSE mp - 9
        y   == yoe + era * 400 + (IF m <= 2 THEN 1 ELSE 0)
    IN  Padded(y, 4) \o <<"-">> \o Padded(m, 2) \o <<"-">> \o Padded(d, 2)

\* urllib.parse.quote, on the characters a token is made of here
RECURSIVE Quote(_)
Quote(s) ==
    IF s = <<>> THEN <<>>
    ELSE (IF s[1] = "@" THEN <<"%", "4", "0">> ELSE << s[1] >>) \o Quote(Tail(s))

\* line 230: the push URL that carries the token
CredentialUrl ==
    <<"h", "t", "t", "p", "s", ":", "/", "/">> \o Quote(token)
        \o <<":", "x", "-", "o", "a", "u", "t", "h", "-", "b", "a", "s", "i", "c", "@">>
        \o <<"g", "i", "t", "h", "u", "b", ".", "c", "o", "m", "/">> \o github_repo

(***************************************************************************)
(* Git trees                                                               *)
(***************************************************************************)

SeqRange(s) == {s[k] : k \in 1..Len(s)}

\* A tree is a function from the paths of its blobs to their bytes; its
\* subtrees are the proper ancestors of those paths.
TreeDirs(tree) == UNION {SeqRange(Ancestors(p)) : p \in DOMAIN tree}

TreeEntries(tree) == DOMAIN tree \cup TreeDirs(tree)

\* the name of entry p as git sorts it inside its tree: a subtree's name
\* compares as if it ended with "/"
SortName(tree, p) ==
    LET segs == Segments(p)
    IN  segs[Len(segs)] \o (IF p \in TreeDirs(tree) THEN <<"/">> ELSE <<>>)

RECURSIVE SiblingOrder(_, _, _, _)
\* whether entry a precedes entry b of the same depth, comparing from level k
SiblingOrder(tree, a, b, k) ==
    LET pa == JoinSegs(SubSeq(Segments(a), 1, k))
        pb == JoinSegs(SubSeq(Segments(b), 1, k))
    IN  IF k > Depth(a) THEN FALSE
        ELSE IF pa = pb THEN SiblingOrder(tree, a, b, k + 1)
        ELSE StrLess(SortName(tree, pa), SortName(tree, pb))

\* Tree.traverse() visits breadth first: by depth, then in tree order
TraverseLess(tree, a, b) ==
    \/ Depth(a) < Depth(b)
    \/ Depth(a) = Depth(b) /\ SiblingOrder(tree, a, b, 1)

RECURSIVE TraverseFrom(_, _)
TraverseFrom(tree, left) ==
    IF left = {} THEN <<>>
    ELSE Only({ << first >> \o TraverseFrom(tree, left \ {first}) :
                first \in {CHOOSE a \in left : \A b \in left \ {a} : TraverseLess(tree, a, b)} })

\* main_tree.traverse(): every entry of the tree, subtrees included
Traverse(tree) == TraverseFrom(tree, TreeEntries(tree))

\* the names of the entries directly inside subtree d, in tree order
ChildNames(tree, d) ==
    LET kids == {p \in TreeEntries(tree) : Depth(p) = Depth(d) + 1 /\ StartsWith(p, d \o <<"/">>)}
        names == TraverseFrom(tree, kids)
    IN  [k \in 1..Len(names) |-> SortName(tree, names[k])]

RECURSIVE Concat(_)
Concat(ss) == IF ss = <<>> THEN <<>> ELSE ss[1] \o <<"%">> \o Concat(Tail(ss))

\* item.data_stream.read(): a blob's bytes, or the serialised entry list of a
\* subtree
EntryData(tree, p) ==
    IF p \in DOMAIN tree THEN tree[p]
    ELSE <<"#">> \o Concat(ChildNames(tree, p))

\* the working directory a checkout of the tree leaves
FsOfTree(tree) ==
    [p \in TreeEntries(tree) |-> IF p \in DOMAIN tree THEN FileEntry(tree[p]) ELSE DirEntry]

\* the tree `git add .` and a commit record for the working directory: its
\* files (git does not track an empty directory)
TreeOfFs(fs) ==
    [p \in {q \in DOMAIN fs : fs[q].kind = "file"} |-> fs[p].data]

\* a file of the working directory that git does not track is in the way of
\* the target's tree when the tree has an entry at its path, or a file at a
\* directory of its path
InTheWay(p, target) ==
    \/ p \in TreeEntries(target)
    \/ \E a \in SeqRange(Ancestors(p)) : a \in DOMAIN target

\* What git checkout <target> does to the working directory when HEAD is at
\* tree `from`: a file git does not track that is in the way of the target,
\* or a tracked file changed on disk whose entry differs in the target, makes
\* git refuse; else the directory becomes the target's tree, with the files
\* git does not track and the local changes carried over (`kept`), a tracked
\* file removed from the directory staying removed.
GitCheckout(fs, from, target) ==
    LET local == TreeOfFs(fs)
        Moves(p) == p \notin DOMAIN target \/ target[p] # from[p]
        untracked == DOMAIN local \ DOMAIN from
        changed == {p \in DOMAIN local \cap DOMAIN from : local[p] # from[p]}
        deleted == {p \in DOMAIN from \ DOMAIN local : ~Moves(p)}
        refused == {p \in untracked : InTheWay(p, target)}
                       \cup {p \in changed : Moves(p)}
        kept == {p \in untracked : ~InTheWay(p, target)}
                    \cup {p \in changed : ~Moves(p)}
    IN  IF refused # {} THEN [fs |-> fs, err |-> "GitCommandError", kept |-> DOMAIN local]
        ELSE [fs   |-> FsOfTree([p \in (DOMAIN target \ deleted) \cup kept |->
                                    IF p \in kept THEN local[p] ELSE target[p]]),
              err  |-> "ok",
              kept |-> kept]

\* What git reset --hard <target> does to the working directory when HEAD is
\* at tree `from`: every tracked file is made the target's or removed, and
\* the files git does not track stay unless they are in the way of the
\* target.
GitResetHard(fs, from, target) ==
    LET local == TreeOfFs(fs)
        kept == {p \in DOMAIN local \ DOMAIN from : ~InTheWay(p, target)}
    IN  [fs   |-> FsOfTree([p \in DOMAIN target \cup kept |->
                               IF p \in kept THEN local[p] ELSE target[p]]),
         err  |-> "ok",
         kept |-> kept]

(***************************************************************************)
(* Logging                                                                 *)
(***************************************************************************)

\* --log-path: not given, or a directory outside the repository
NoLogPath == <<>>
LogPaths == {NoLogPath, <<"/", "t">>}

\* lines 84-87: the file name the FileHandler is given
LogFilename(file_path) ==
    IF file_path # NoLogPath THEN PathJoin(file_path, LOG_FILE) ELSE LOG_FILE

\* the mark of one record in the log file
LogMark == <<"l">>

RECURSIVE LogMarks(_)
LogMarks(n) == IF n = 0 THEN <<>> ELSE LogMark \o LogMarks(n - 1)

\* n records handled by the FileHandler: appended to the log file when the
\* file the handler opened is still the one in the working directory
LogRecords(fs, stream, n) ==
    IF stream = "file"
    THEN FsWith(fs, LOG_FILE, FileEntry(fs[LOG_FILE].data \o LogMarks(n)))
    ELSE fs

\* lines 28-30 and 90-92: dictConfig opens the log file for appending, which
\* creates it when it is not there, and three debug records are written
StartLogging(fs, file_path) ==
    IF LogFilename(file_path)[1] = "/"
    THEN [fs |-> fs, stream |-> "outside"]
    ELSE [fs |-> LogRecords(IF IsFile(fs, LOG_FILE) THEN fs
                            ELSE FsWith(fs, LOG_FILE, FileEntry(<<>>)),
                            "file", 3),
          stream |-> "file"]

\* the handler's file after a git command that kept the files `kept` as
\* they were: still in the directory, or unlinked
StreamAfter(stream, kept) ==
    IF stream = "file" /\ LOG_FILE \notin kept THEN "gone" ELSE stream

(***************************************************************************)
(* Bounds and inputs                                                       *)
(***************************************************************************)

\* the longest upstream history replayed, and the longest one walked
MaxHistory == 2
MaxWalk == 3
\* the deepest path export_blob is called with on its own
MaxDepth == 3
\* the age in days of the oldest upstream commit, and the widest window
MaxAge == 2
MaxDays == 1
\* the day the tool runs (days since 1970-01-01, here 2026-01-01)
Today == 20454
\* --commit-delay, at its default
commit_delay == 10

NoBranch == <<>>
BranchArgs == {NoBranch, <<"b">>}

\* --config-path: a directory named with and without its slash, and a file
ConfigPaths == {<<"c", "/">>, <<"c">>, <<"c", "/", "f">>}

\* the tree of the fork's main branch
MainTree ==
    (<<"r">> :> <<"M">>) @@ (<<"c", "/", "f">> :> <<"A">>)
        @@ ((<<"c", "/">> \o CIRCLECI \o <<"/", "k">>) :> <<"A">>)

\* the trees an upstream commit may have: its own version of the overlaid
\* file, a file of its own under the config path and its own CI directory;
\* no config directory; a file where the config directory is; a directory
\* where the overlaid file is
UpTrees ==
    { (<<"r">> :> <<"U">>) @@ (<<"c", "/", "f">> :> <<"B">>)
          @@ (<<"c", "/", "x">> :> <<"U">>)
          @@ ((CIRCLECI \o <<"/", "u">>) :> <<"U">>),
      (<<"r">> :> <<"U">>),
      (<<"r">> :> <<"U">>) @@ (<<"c">> :> <<"U">>),
      (<<"r">> :> <<"U">>) @@ (<<"c", "/", "f", "/", "g">> :> <<"U">>) }

MainSha == <<"m", "0">>
UpstreamSha(k) == <<"a", Digit(k)>>
NewSha(k) == <<"n", Digit(k)>>

\* The upstream histories of n commits as iter_commits("upstream/main") walks
\* them, tip first: commit k of the walk is the (n + 1 - k)-th commit made.
Histories(n, ages, trees) ==
    { [k \in 1..n |-> [hexsha |-> UpstreamSha(n + 1 - k),
                       committed_date |-> Today - d[k],
                       tree |-> t[k]]] :
        d \in [1..n -> ages], t \in [1..n -> trees] }

VARIABLES
    args,               \* the parsed command line
    upstream,           \* the upstream repository's main history, tip first
    pc,                 \* the statement the run is at
    rerun,              \* whether this is a re-run in the repository a run left
    has_upstream,       \* whether the remote "upstream" is registered
    registration,       \* how create_remote ended in this run
    fetched,            \* the commits of upstream/main after the fetch
    walked,             \* the commits the walk has visited
    commits,            \* replay_commits: the commits collected
    branches,           \* push_commits_one_by_one: the branches pushed
    cycle,              \* the index in commits of the commit being replayed
    branch,             \* the branch name of the cycle
    folders_from_main,  \* the overlay map, in insertion order
    url,                \* line 227: the origin URL the cycle saved
    objects,            \* the commits of the local repository
    heads,              \* the local branches and their tips
    head,               \* the branch HEAD is on
    wt,                 \* the working directory
    origin_url,         \* the URL of the remote "origin" in the configuration
    origin_heads,       \* the branches of the hosted repository
    next_id,            \* commits created so far, over both runs
    now,                \* seconds slept so far in this run
    log,                \* the steps this run has executed
    failed,             \* the step whose exception ended this run
    named,              \* every (hexsha, branch name) a cycle has computed
    call,               \* a call of export_blob on its own: its arguments, the
                        \* directory it started in and the exception it raised
    handler             \* where the records of the log's FileHandler go: the
                        \* file replay.log of the working directory, a file
                        \* git has removed from it since, a file outside it

vars ==
    << args, upstream, pc, rerun, has_upstream, registration, fetched, walked,
       commits, branches, cycle, branch, folders_from_main, url, objects,
       heads, head, wt, origin_url, origin_heads, next_id, now, log, failed,
       named, call, handler >>

repo_vars == << objects, heads, head, origin_url, origin_heads, next_id >>
input_vars == << args, upstream, rerun, call >>
select_vars == << has_upstream, registration, fetched, walked, commits >>
cycle_vars == << branches, cycle, branch, folders_from_main, url >>

NoFailure == [cycle |-> 0, step |-> "none", err |-> "ok"]

\* export_blob is not being called on its own
NoCall == [dst_path |-> <<>>, data |-> <<>>, before |-> <<>>, err |-> "none"]

\* a step of the run, for the log: the cycle it belongs to, the seconds slept
\* before it, the branch name and the commit it concerns
Event(ev, ref, sha) == [ev |-> ev, cycle |-> cycle, at |-> now, ref |-> ref, sha |-> sha]

\* the state of a fresh clone of the fork, before the first run
InitWith(histories, days) ==
    /\ args \in [branch : BranchArgs, config_path : ConfigPaths, replay_days : days,
                 log_path : LogPaths]
    /\ upstream \in histories
    /\ pc = "create_remote"
    /\ rerun = FALSE
    /\ has_upstream = FALSE
    /\ registration = "none"
    /\ fetched = <<>>
    /\ walked = 0
    /\ commits = <<>>
    /\ branches = <<>>
    /\ cycle = 0
    /\ branch = <<>>
    /\ folders_from_main = <<>>
    /\ url = <<>>
    /\ objects = (MainSha :> [tree |-> MainTree, parent |-> <<>>, message |-> <<>>])
    /\ heads = (MAIN :> MainSha)
    /\ head = MAIN
    /\ wt = StartLogging(FsOfTree(MainTree), args.log_path).fs
    /\ handler = StartLogging(FsOfTree(MainTree), args.log_path).stream
    /\ origin_url = ORIGIN_URL
    /\ origin_heads = (MAIN :> MainSha)
    /\ next_id = 0
    /\ now = 0
    /\ log = <<>>
    /\ failed = NoFailure
    /\ named = {}
    /\ call = NoCall

\* Abort with the exception swallowed: the run goes on to the end of the cycle
AbortSwallowed(step, err) ==
    /\ pc' = "sleep"
    /\ failed' = [cycle |-> cycle, step |-> step, err |-> err]

\* an exception that nothing catches ends the run
Abort(step, err) ==
    /\ pc' = "aborted"
    /\ failed' = [cycle |-> cycle, step |-> step, err |-> err]

(***************************************************************************)
(* replay_commits: the commit selector                                     *)
(***************************************************************************)

\* lines 161-164: create_remote, and the except clause around it.  The call
\* registers the remote, or fails because the remote exists, or fails for
\* another reason (no --upstream-repo-url, so that no git command is run);
\* the except clause catches every exception and the run goes on.
CreateRemote ==
    /\ pc = "create_remote"
    /\ \E outcome \in {"created", "exists", "other"} :
        /\ outcome = "created" => ~has_upstream
        /\ outcome = "exists" => has_upstream
        /\ has_upstream' = (has_upstream \/ outcome = "created")
        /\ registration' = outcome
        /\ wt' = LogRecords(wt, handler, IF outcome = "other" THEN 0 ELSE 1)
        /\ log' = Append(log, Event("create_remote", <<>>, <<>>))
    /\ pc' = "fetch"
    /\ UNCHANGED << input_vars, handler, fetched, walked, commits, cycle_vars, repo_vars,
                    now, failed, named >>

\* line 165: repo.remotes.upstream.fetch("main").  Without the remote the
\* attribute lookup raises; with it the fetch succeeds or fails.  The log gets
\* the git fetch command and, of a fetch that succeeds, the three records of
\* the parse of its output, of one that fails, the record of the wait for it.
Fetch ==
    /\ pc = "fetch"
    /\ \/ /\ ~has_upstream
          /\ Abort("fetch", "AttributeError")
          /\ UNCHANGED << fetched, objects, log, wt >>
       \/ /\ has_upstream
          /\ Abort("fetch", "GitCommandError")
          /\ wt' = LogRecords(wt, handler, 2)
          /\ UNCHANGED << fetched, objects, log >>
       \/ /\ has_upstream
          /\ fetched' = upstream
          /\ wt' = LogRecords(wt, handler, 4)
          /\ objects' =
                [h \in DOMAIN objects \cup {upstream[k].hexsha : k \in 1..Len(upstream)} |->
                    IF h \in DOMAIN objects THEN objects[h]
                    ELSE LET k == CHOOSE j \in 1..Len(upstream) : upstream[j].hexsha = h
                         IN  [tree    |-> upstream[k].tree,
                              parent  |-> IF k < Len(upstream) THEN upstream[k + 1].hexsha
                                          ELSE <<>>,
                              message |-> <<>>]]
          /\ log' = Append(log, Event("fetch", <<>>, <<>>))
          /\ pc' = "walk"
          /\ UNCHANGED failed
    /\ UNCHANGED << input_vars, handler, has_upstream, registration, walked,
                    commits, cycle_vars, heads, head, origin_url, origin_heads,
                    next_id, now, named >>

\* line 168: (datetime.now(timezone.utc) - timedelta(days=replay_days)).date()
Cutoff == Today - args.replay_days

\* TooOld with the cutoff a day early
TooOldDayLate(commit) == commit.committed_date < Cutoff - 1

\* line 168: the test that ends the walk
TooOld(commit) == commit.committed_date < Cutoff

\* Walk with `continue` where the code has `break`
WalkPastOlder ==
    /\ pc = "walk"
    /\ IF walked < Len(fetched)
       THEN /\ commits' = IF TooOld(fetched[walked + 1]) THEN commits
                          ELSE Append(commits, fetched[walked + 1])
            /\ walked' = walked + 1
            /\ pc' = "walk"
       ELSE /\ pc' = "reverse"
            /\ UNCHANGED << commits, walked >>
    /\ wt' = LogRecords(wt, handler, IF walked = 0 THEN 2 ELSE 0)
    /\ UNCHANGED << input_vars, handler, has_upstream, registration, fetched,
                    cycle_vars, repo_vars, now, log, failed, named >>

\* lines 167-170: one iteration of the walk of upstream/main, which runs
\* git rev-list when it starts; the first committed_datetime read starts the
\* git cat-file --batch process the later ones use
Walk ==
    /\ pc = "walk"
    /\ IF walked < Len(fetched) /\ ~TooOld(fetched[walked + 1])
       THEN /\ commits' = Append(commits, fetched[walked + 1])
            /\ walked' = walked + 1
            /\ pc' = "walk"
       ELSE /\ pc' = "reverse"
            /\ UNCHANGED << commits, walked >>
    /\ wt' = LogRecords(wt, handler, IF walked = 0 THEN 2 ELSE 0)
    /\ UNCHANGED << input_vars, handler, has_upstream, registration, fetched,
                    cycle_vars, repo_vars, now, log, failed, named >>

\* Reversed with the reversal left out
NotReversed(s) == s

\* list.reverse
Reversed(s) == [k \in 1..Len(s) |-> s[Len(s) + 1 - k]]

\* lines 171-182: reverse the list and hand it to push_commits_one_by_one,
\* which returns at once when the list is empty (line 155 then logs the
\* branches)
Reverse ==
    /\ pc = "reverse"
    /\ commits' = Reversed(commits)
    /\ branches' = <<>>
    /\ IF commits = <<>>
       THEN pc' = "done" /\ cycle' = 0
       ELSE pc' = "branch" /\ cycle' = 1
    /\ wt' = LogRecords(wt, handler, IF commits = <<>> THEN 1 ELSE 0)
    /\ log' = Append(log, Event("selected", <<>>, <<>>))
    /\ UNCHANGED << input_vars, handler, has_upstream, registration, fetched,
                    walked, branch, folders_from_main, url, repo_vars, now,
                    failed, named >>

(***************************************************************************)
(* push_commits_one_by_one: the replay executor                            *)
(***************************************************************************)

\* BranchName with the hash left out of the name
BranchNameWithoutHash(commit) ==
    IF args.branch # NoBranch
    THEN args.branch
    ELSE <<"r", "e", "p", "l", "a", "y", "-">> \o IsoFormat(Today)

\* lines 183-187: the branch name of a commit
BranchName(commit) ==
    IF args.branch # NoBranch
    THEN args.branch \o <<"-">> \o commit.hexsha
    ELSE <<"r", "e", "p", "l", "a", "y", "-">> \o IsoFormat(Today) \o <<"-">> \o commit.hexsha

\* line 225: the commit message
CommitMessage(commit) ==
    <<"C", "o", "m", "m", "i", "t", "t", "i", "n", "g", " ">> \o commit.hexsha

\* line 189: branch not in repo.heads
NeedsCheckout(name) == name \notin DOMAIN heads

\* lines 183-190: name the branch; when no local branch has the name,
\* git checkout -B <branch> main, which git refuses when it would overwrite
\* a file of the working directory
BranchStep ==
    /\ pc = "branch"
    /\ \E name \in {BranchName(commits[cycle])} :
           /\ branch' = name
           /\ named' = named \cup {<< commits[cycle].hexsha, name >>}
           /\ IF NeedsCheckout(name)
              THEN \E done \in {GitCheckout(LogRecords(wt, handler, 1),
                                            objects[heads[head]].tree,
                                            objects[heads[MAIN]].tree)} :
                   \/ /\ done.err = "ok"
                      /\ heads' = [b \in DOMAIN heads \cup {name} |->
                                      IF b = name THEN heads[MAIN] ELSE heads[b]]
                      /\ head' = name
                      /\ wt' = done.fs
                      /\ handler' = StreamAfter(handler, done.kept)
                      /\ log' = Append(log, Event("checkout", name, heads[MAIN]))
                      /\ pc' = "capture"
                      /\ UNCHANGED failed
                   \/ /\ Abort("checkout", "GitCommandError")
                      /\ wt' = LogRecords(wt, handler, 1)
                      /\ UNCHANGED << heads, head, handler, log >>
              ELSE /\ pc' = "capture"
                   /\ UNCHANGED << heads, head, wt, handler, log, failed >>
    /\ UNCHANGED << input_vars, select_vars, branches, cycle, folders_from_main,
                    url, objects, origin_url, origin_heads, next_id, now >>

\* lines 201-205: the entries of the tree whose path starts with the folder,
\* in the order traverse() yields them, each with the bytes of its object
RECURSIVE CaptureFrom(_, _, _)
CaptureFrom(tree, items, folder) ==
    IF items = <<>> THEN <<>>
    ELSE (IF StartsWith(items[1], folder)
          THEN << [path |-> items[1], data |-> EntryData(tree, items[1])] >>
          ELSE <<>>) \o CaptureFrom(tree, Tail(items), folder)

CaptureOverlay(main_tree, config_path) ==
    CaptureFrom(main_tree, Traverse(main_tree), config_path)

\* lines 192-205: set the commit identity (two git config commands), read the
\* tree of the main branch and capture the overlay map from it.  The first
\* repo.heads.main.commit of a run starts the git cat-file --batch-check
\* process the later ones use.
CaptureStep ==
    /\ pc = "capture"
    /\ folders_from_main' = CaptureOverlay(objects[heads[MAIN]].tree, args.config_path)
    /\ wt' = LogRecords(wt, handler, IF cycle = 1 THEN 3 ELSE 2)
    /\ log' = Append(log, Event("capture", branch, heads[MAIN]))
    /\ pc' = "reset"
    /\ UNCHANGED << input_vars, handler, select_vars, branches, cycle, branch,
                    url, repo_vars, now, failed, named >>

\* line 207: repo.head.reset(commit, index=True, working_tree=True) moves the
\* branch HEAD is on to the commit and makes the working directory its tree
ResetStep ==
    /\ pc = "reset"
    /\ \/ \E done \in {GitResetHard(LogRecords(wt, handler, 1),
                                      objects[heads[head]].tree,
                                      commits[cycle].tree)} :
          /\ heads' = [heads EXCEPT ![head] = commits[cycle].hexsha]
          /\ wt' = done.fs
          /\ handler' = StreamAfter(handler, done.kept)
          /\ log' = Append(log, Event("reset", head, commits[cycle].hexsha))
          /\ pc' = "overlay"
          /\ UNCHANGED failed
       \/ /\ Abort("reset", "GitCommandError")
          /\ wt' = LogRecords(wt, handler, 1)
          /\ UNCHANGED << heads, handler, log >>
    /\ UNCHANGED << input_vars, select_vars, cycle_vars, objects, head,
                    origin_url, origin_heads, next_id, now, named >>

\* lines 210-212: one path of the overlay map
RestorePath(fs, item) ==
    Only({ IF removed.err # "ok" THEN removed
           ELSE export_blob(removed.fs, item.data, item.path) :
           removed \in {IF PathExists(fs, item.path) THEN OsRemove(fs, item.path)
                        ELSE [fs |-> fs, err |-> "ok"]} })

RECURSIVE RestoreOverlay(_, _)
\* lines 209-212: the loop over the overlay map, ended by the first exception
RestoreOverlay(fs, items) ==
    IF items = <<>> THEN [fs |-> fs, err |-> "ok"]
    ELSE Only({ IF one.err # "ok" THEN one ELSE RestoreOverlay(one.fs, Tail(items)) :
                one \in {RestorePath(fs, items[1])} })

OverlayStep ==
    /\ pc = "overlay"
    /\ \E done \in {RestoreOverlay(wt, folders_from_main)} :
           /\ wt' = done.fs
           /\ IF done.err = "ok"
              THEN /\ pc' = "cicopy"
                   /\ log' = Append(log, Event("overlay", branch, <<>>))
                   /\ UNCHANGED failed
              ELSE /\ Abort("overlay", done.err)
                   /\ UNCHANGED log
    /\ UNCHANGED << input_vars, handler, select_vars, cycle_vars, objects, heads,
                    head, origin_url, origin_heads, next_id, now, named >>

\* CopyCiDirectory that copies into the directory that is there, without
\* removing it first
CopyCiDirectoryMerging(fs, config_path) ==
    LET s == Resolve(PathJoin(PathJoin(working_repo_dir, config_path), CIRCLECI))
        d == Resolve(PathJoin(working_repo_dir, CIRCLECI))
        copied == {d} \cup {d \o SubSeq(q, Len(s) + 1, Len(q)) : q \in Below(fs, s)}
        from(q) == IF q = d THEN s ELSE s \o SubSeq(q, Len(d) + 1, Len(q))
    IN  IF s \notin DOMAIN fs \/ fs[s].kind # "dir" THEN [fs |-> fs, err |-> "ok"]
        ELSE [fs  |-> [q \in DOMAIN fs \cup copied |->
                          IF q \in copied THEN fs[from(q)] ELSE fs[q]],
              err |-> "ok"]

\* lines 214-222: replace the top-level CI directory by the one under the
\* config path, when there is one
CopyCiDirectory(fs, config_path) ==
    LET source_dir      == PathJoin(PathJoin(working_repo_dir, config_path), CIRCLECI)
        destination_dir == PathJoin(working_repo_dir, CIRCLECI)
    IN  IF ~IsDir(fs, source_dir) THEN [fs |-> fs, err |-> "ok"]
        ELSE Only({ IF cleared.err # "ok" THEN cleared
                    ELSE Copytree(cleared.fs, source_dir, destination_dir) :
                    cleared \in {IF IsDir(fs, destination_dir)
                                 THEN Rmtree(fs, destination_dir)
                                 ELSE [fs |-> fs, err |-> "ok"]} })

CiCopyStep ==
    /\ pc = "cicopy"
    /\ \E done \in {CopyCiDirectory(wt, args.config_path)} :
           /\ wt' = done.fs
           /\ IF done.err = "ok"
              THEN /\ pc' = "commit"
                   /\ log' = Append(log, Event("cicopy", branch, <<>>))
                   /\ UNCHANGED failed
              ELSE /\ Abort("cicopy", done.err)
                   /\ UNCHANGED log
    /\ UNCHANGED << input_vars, handler, select_vars, cycle_vars, objects, heads,
                    head, origin_url, origin_heads, next_id, now, named >>

\* lines 224-225: git add . and repo.index.commit: a new commit of the working
\* directory, as it is when git add runs, on top of HEAD, which the branch
\* HEAD is on then points at
CommitStep ==
    /\ pc = "commit"
    /\ wt' = LogRecords(wt, handler, 1)
    /\ \/ /\ objects' =
                [h \in DOMAIN objects \cup {NewSha(next_id + 1)} |->
                    IF h = NewSha(next_id + 1)
                    THEN [tree    |-> TreeOfFs(wt'),
                          parent  |-> heads[head],
                          message |-> CommitMessage(commits[cycle])]
                    ELSE objects[h]]
          /\ heads' = [heads EXCEPT ![head] = NewSha(next_id + 1)]
          /\ next_id' = next_id + 1
          /\ log' = Append(log, Event("commit", head, NewSha(next_id + 1)))
          /\ pc' = "set_url"
          /\ UNCHANGED failed
       \/ /\ Abort("commit", "GitCommandError")     \* git add fails
          /\ UNCHANGED << objects, heads, next_id, log >>
    /\ UNCHANGED << input_vars, handler, select_vars, cycle_vars, head,
                    origin_url, origin_heads, now, named >>

\* lines 227-230: save the origin URL and set the one that carries the token
SetUrlStep ==
    /\ pc = "set_url"
    /\ url' = origin_url
    /\ origin_url' = CredentialUrl
    /\ wt' = LogRecords(wt, handler, 1)
    /\ log' = Append(log, Event("set_url", branch, <<>>))
    /\ pc' = "push"
    /\ UNCHANGED << input_vars, handler, select_vars, branches, cycle, branch,
                    folders_from_main, objects, heads, head, origin_heads,
                    next_id, now, failed, named >>

\* line 233: what git push --force origin <branch> sends: the tip of the
\* local branch of that name
PushedTip(name) == heads[name]

\* lines 232-233: the forced push, which succeeds or raises
PushStep ==
    /\ pc = "push"
    /\ \/ /\ origin_heads' = [b \in DOMAIN origin_heads \cup {branch} |->
                                 IF b = branch THEN PushedTip(branch) ELSE origin_heads[b]]
          /\ log' = Append(log, Event("push", branch, PushedTip(branch)))
          /\ pc' = "restore_url"
          /\ UNCHANGED failed
       \/ /\ Abort("push", "GitCommandError")
          /\ UNCHANGED << origin_heads, log >>
    /\ wt' = LogRecords(wt, handler, 1)
    /\ UNCHANGED << input_vars, handler, select_vars, cycle_vars, objects, heads,
                    head, origin_url, next_id, now, named >>

\* line 234: put the saved URL back
RestoreUrlStep ==
    /\ pc = "restore_url"
    /\ origin_url' = url
    /\ log' = Append(log, Event("restore_url", branch, <<>>))
    /\ pc' = "sleep"
    /\ wt' = LogRecords(wt, handler, 1)
    /\ UNCHANGED << input_vars, handler, select_vars, cycle_vars, objects, heads,
                    head, origin_heads, next_id, now, failed, named >>

\* SleepStep without the sleep
SleepStepNoDelay ==
    /\ pc = "sleep"
    /\ now' = now
    /\ branches' = Append(branches, branch)
    /\ log' = Append(log, Event("sleep", branch, <<>>))
    /\ IF cycle < Len(commits)
       THEN cycle' = cycle + 1 /\ pc' = "branch"
       ELSE cycle' = cycle /\ pc' = "done"
    /\ wt' = LogRecords(wt, handler, IF cycle < Len(commits) THEN 0 ELSE 1)
    /\ UNCHANGED << input_vars, handler, select_vars, branch, folders_from_main,
                    url, repo_vars, failed, named >>

\* lines 235-239: sleep, record the branch, go on to the next commit or
\* return (line 155 then logs the branches)
SleepStep ==
    /\ pc = "sleep"
    /\ now' = now + commit_delay
    /\ branches' = Append(branches, branch)
    /\ log' = Append(log, Event("sleep", branch, <<>>))
    /\ IF cycle < Len(commits)
       THEN cycle' = cycle + 1 /\ pc' = "branch"
       ELSE cycle' = cycle /\ pc' = "done"
    /\ wt' = LogRecords(wt, handler, IF cycle < Len(commits) THEN 0 ELSE 1)
    /\ UNCHANGED << input_vars, handler, select_vars, branch, folders_from_main,
                    url, repo_vars, failed, named >>

\* lines 23-31: the tool is run once more in the repository the first run
\* left, on the same upstream window: at once, with HEAD and the working
\* directory as the run left them, or after the operator has checked out
\* main and cleaned the working directory.  main configures the logging
\* again before it calls run.
Restart ==
    /\ pc \in {"done", "aborted"}
    /\ ~rerun
    /\ rerun' = TRUE
    /\ \E on_main \in BOOLEAN :
        /\ head' = IF on_main THEN MAIN ELSE head
        /\ \E started \in {StartLogging(IF on_main
                                        THEN FsOfTree(objects[heads[MAIN]].tree)
                                        ELSE wt,
                                        args.log_path)} :
               /\ wt' = started.fs
               /\ handler' = started.stream
    /\ pc' = "create_remote"
    /\ registration' = "none"
    /\ fetched' = <<>>
    /\ walked' = 0
    /\ commits' = <<>>
    /\ branches' = <<>>
    /\ cycle' = 0
    /\ branch' = <<>>
    /\ folders_from_main' = <<>>
    /\ url' = <<>>
    /\ now' = 0
    /\ log' = <<>>
    /\ failed' = NoFailure
    /\ UNCHANGED << args, upstream, call, has_upstream, objects, heads,
                    origin_url, origin_heads, next_id, named >>

Select == CreateRemote \/ Fetch \/ Walk \/ Reverse

Replay ==
    \/ BranchStep \/ CaptureStep \/ ResetStep \/ OverlayStep \/ CiCopyStep
    \/ CommitStep \/ SetUrlStep \/ PushStep \/ RestoreUrlStep \/ SleepStep

Next == Select \/ Replay \/ Restart

\* the replay of an upstream whose commits are in the default window
Init == InitWith(UNION {Histories(n, {0}, UpTrees) : n \in 1..MaxHistory}, {1})

Spec == Init /\ [][Next]_vars

\* the selector alone, over upstream histories of every age and every window
InitSelect ==
    InitWith(UNION {Histories(n, 0..MaxAge, {(<<"r">> :> <<"U">>)}) : n \in 1..MaxWalk},
             0..MaxDays)

SpecSelect == InitSelect /\ [][Select]_vars

(***************************************************************************)
(* export_blob on its own, over every small working directory              *)
(***************************************************************************)

\* the k-th name of a path: a, b, c, ...
SegmentName(k) == << Alphabet[Ord("a") + k - 1] >>

\* the path of depth k: a, a/b, a/b/c
Chain(k) == JoinSegs([j \in 1..k |-> SegmentName(j)])

\* the working directory with the directories of the chain down to depth k
ChainDirs(k) == [p \in {Chain(j) : j \in 1..k} |-> DirEntry]

\* The working directories: directories down to some depth of the chain, with
\* below the last one nothing, a file of the chain, or a file beside it.
ExportDirectories ==
    {ChainDirs(k) : k \in 0..MaxDepth}
        \cup {FsWith(ChainDirs(k), Chain(k + 1), FileEntry(<<"M">>)) : k \in 0..(MaxDepth - 1)}
        \cup {FsWith(ChainDirs(k), Chain(k) \o <<"/", "x">>, FileEntry(<<"M">>)) :
                 k \in 1..MaxDepth}

\* the destinations: the paths of the chain, also written with a final slash
ExportDestinations ==
    {Chain(k) : k \in 1..MaxDepth} \cup {Chain(k) \o <<"/">> : k \in 1..MaxDepth}

InitExport ==
    /\ call \in [dst_path : ExportDestinations, data : {<<"A">>, <<"M">>},
                 before : ExportDirectories, err : {"none"}]
    /\ wt = call.before
    /\ pc = "export_blob"
    /\ args = [branch |-> NoBranch, config_path |-> Chain(1), replay_days |-> 1,
               log_path |-> NoLogPath]
    /\ handler = "outside"
    /\ upstream = <<>>
    /\ rerun = FALSE
    /\ has_upstream = FALSE
    /\ registration = "none"
    /\ fetched = <<>>
    /\ walked = 0
    /\ commits = <<>>
    /\ branches = <<>>
    /\ cycle = 0
    /\ branch = <<>>
    /\ folders_from_main = <<>>
    /\ url = <<>>
    /\ objects = (MainSha :> [tree |-> MainTree, parent |-> <<>>, message |-> <<>>])
    /\ heads = (MAIN :> MainSha)
    /\ head = MAIN
    /\ origin_url = ORIGIN_URL
    /\ origin_heads = (MAIN :> MainSha)
    /\ next_id = 0
    /\ now = 0
    /\ log = <<>>
    /\ failed = NoFailure
    /\ named = {}

\* lines 241-260: one call of export_blob(data, dst_path)
ExportBlobCall ==
    /\ pc = "export_blob"
    /\ \E done \in {export_blob(wt, call.data, call.dst_path)} :
           /\ wt' = done.fs
           /\ call' = [call EXCEPT !.err = done.err]
           /\ pc' = IF done.err = "ok" THEN "returned" ELSE "raised"
    /\ UNCHANGED << args, upstream, rerun, select_vars, cycle_vars, objects, heads,
                    head, origin_url, origin_heads, next_id, now, log, failed,
                    named, handler >>

SpecExport == InitExport /\ [][ExportBlobCall]_vars

(***************************************************************************)
(* What the claims speak about                                             *)
(***************************************************************************)

IsPush(e) == e.ev = "push"
PushEvents == SelectSeq(log, IsPush)

\* the places in the log of the step `ev` of cycle c
IndexOf(ev, c) == {j \in 1..Len(log) : log[j].ev = ev /\ log[j].cycle = c}

\* replay_commits has handed its list to push_commits_one_by_one
HandedOver == \E j \in 1..Len(log) : log[j].ev = "selected"

\* the cycle has committed and pushed
CyclePushed == pc \in {"restore_url", "sleep"}

\* the commit the current cycle created
CycleCommit == NewSha(next_id)

\* the cycle ran git checkout -B: no local branch had its name
CycleCheckedOut == IndexOf("checkout", cycle) # {}

\* a commit of the fetched history is older than the window
Older(commit) == commit.committed_date < Today - args.replay_days

(***************************************************************************)
(* C1                                                                      *)
(***************************************************************************)

\* C1: when a replay cycle has committed and pushed, every path of the overlay
\* map is a file of the working directory, and of the commit the cycle
\* created, with exactly the bytes captured from the main branch.
C1_OverlayRestored ==
    CyclePushed =>
        \A k \in 1..Len(folders_from_main) :
            LET item == folders_from_main[k]
            IN  /\ IsFile(wt, item.path)
                /\ wt[item.path].data = item.data
                /\ item.path \in DOMAIN objects[CycleCommit].tree
                /\ objects[CycleCommit].tree[item.path] = item.data

\* the tree of the main branch the current cycle captured its overlay map from
CapturedTree ==
    objects[log[CHOOSE j \in IndexOf("capture", cycle) : TRUE].sha].tree

\* The same for the keys of the overlay map that are blobs of the main tree:
\* what is left of C1 once the subtree keys (C16) are set aside.
OverlayBlobsRestored ==
    CyclePushed =>
        \A k \in 1..Len(folders_from_main) :
            LET item == folders_from_main[k]
            IN  item.path \in DOMAIN CapturedTree =>
                    /\ IsFile(wt, item.path)
                    /\ wt[item.path].data = item.data
                    /\ objects[CycleCommit].tree[item.path] = item.data

(***************************************************************************)
(* C2                                                                      *)
(***************************************************************************)

\* a cycle has ended: its push returned and the URL was put back, or its push
\* raised and ended the run
CycleEnded == pc = "sleep" \/ (pc = "aborted" /\ failed.step = "push")

\* C2: in every state in which a cycle has ended, after a push that succeeded
\* or one that failed, the origin URL is the one the cycle saved before it
\* set the credential-bearing one, and is not the credential-bearing one.
C2_UrlRestored ==
    CycleEnded => origin_url = url /\ origin_url # CredentialUrl

(***************************************************************************)
(* C3                                                                      *)
(***************************************************************************)

\* C3: the k-th push of a run is the push of cycle k, of the branch of the
\* k-th selected commit; it comes after the commit step of its cycle and
\* before the reset of the next cycle; commit_delay seconds pass between two
\* consecutive pushes; a run that completes has pushed once per selected
\* commit.
C3_PushOrder ==
    /\ \A k \in 1..Len(PushEvents) :
        /\ PushEvents[k].cycle = k
        /\ SubSeq(PushEvents[k].ref, Len(PushEvents[k].ref) - 1, Len(PushEvents[k].ref))
               = commits[k].hexsha
    /\ \A c \in 1..Len(commits) : \A j \in IndexOf("push", c) :
        /\ \E i \in IndexOf("commit", c) : i < j
        /\ \A i \in IndexOf("reset", c + 1) : j < i
    /\ \A k \in 1..(Len(PushEvents) - 1) :
        PushEvents[k + 1].at - PushEvents[k].at >= commit_delay
    /\ pc = "done" => Len(PushEvents) = Len(commits)

\* a run of two cycles has completed
C3_Witness == pc = "done" /\ Len(commits) = 2 /\ Len(PushEvents) = 2

(***************************************************************************)
(* C4, C5, C6: the commit selector                                         *)
(***************************************************************************)

\* C4: every commit selected has a committed date on or after today minus
\* replay_days days.
C4_InWindow ==
    \A k \in 1..Len(commits) :
        commits[k].committed_date >= Today - args.replay_days

\* the selector handed over two commits, one of them of the cutoff day, and
\* left out an older one
C4_Witness ==
    /\ HandedOver
    /\ Len(commits) = 2
    /\ \E k \in 1..Len(commits) : commits[k].committed_date = Today - args.replay_days
    /\ \E k \in 1..Len(fetched) : Older(fetched[k])

\* C5 as stated: the sequence handed to the replay executor is ordered by
\* committed date, oldest first, in whatever order the walk visited it.
C5_SortedByDate ==
    HandedOver =>
        \A j, k \in 1..Len(commits) :
            j < k => commits[j].committed_date <= commits[k].committed_date

\* the committed dates do not increase along the commits the walk collected
DatesDescend ==
    \A j, k \in 1..walked : j < k => fetched[j].committed_date >= fetched[k].committed_date

\* C5, amended: the sequence handed to the replay executor is the commits the
\* walk collected, in the reverse of the order it visited them; it is ordered
\* by committed date, oldest first, when the committed dates do not increase
\* along the walk.
C5_ReverseOfWalk ==
    HandedOver =>
        /\ Len(commits) = walked
        /\ \A k \in 1..walked : commits[k] = fetched[walked + 1 - k]
        /\ DatesDescend =>
               \A j, k \in 1..Len(commits) :
                   j < k => commits[j].committed_date <= commits[k].committed_date

\* two commits of different days were handed over, the older first
C5_Witness ==
    /\ HandedOver
    /\ Len(commits) = 2
    /\ DatesDescend
    /\ commits[1].committed_date < commits[2].committed_date

\* C6 as stated: every commit of the walk of upstream/main whose date is on or
\* after the cutoff is in the selected sequence, also one the walk reaches
\* after an older commit.
C6_AllInWindow ==
    HandedOver =>
        \A k \in 1..Len(fetched) :
            ~Older(fetched[k]) => \E j \in 1..Len(commits) : commits[j] = fetched[k]

\* C6, amended: the selected commits are the commits the walk visits before
\* the first commit older than the cutoff, and no others.
C6_UntilFirstOlder ==
    HandedOver =>
        \A k \in 1..Len(fetched) :
            (\E j \in 1..Len(commits) : commits[j] = fetched[k])
                <=> (\A i \in 1..k : ~Older(fetched[i]))

\* a commit in the window that the walk reaches after an older one was left
\* out, and a commit before the older one was selected
C6_Witness ==
    /\ HandedOver
    /\ Len(commits) = 1
    /\ \E i, k \in 1..Len(fetched) : i < k /\ Older(fetched[i]) /\ ~Older(fetched[k])

(***************************************************************************)
(* C7                                                                      *)
(***************************************************************************)

\* C7: when the branch of a cycle already existed locally (the tool is run
\* again on the same window), then after the push of the cycle the remote tip
\* of the branch is the commit the cycle created.
C7_RemoteTipIsNewCommit ==
    CyclePushed /\ ~CycleCheckedOut => origin_heads[branch] = CycleCommit

(***************************************************************************)
(* C8                                                                      *)
(***************************************************************************)

\* C8: over every cycle of every run, two branch names are equal if and only
\* if the hashes of their commits are equal.
C8_UniqueNames ==
    \A p, q \in named : (p[2] = q[2]) <=> (p[1] = q[1])

\* a second run has named the branches of two commits again
C8_Witness ==
    /\ rerun
    /\ cycle = 2
    /\ pc = "capture"
    /\ \E p, q \in named : p[1] # q[1]

(***************************************************************************)
(* C9                                                                      *)
(***************************************************************************)

\* C9: once a step has raised, the run is over: the step took no effect and no
\* later step is in the log; every branch the run has pushed has, on the
\* remote, the tip it was pushed with; and the branch list of a run that
\* completed is the names of the pushed branches in push order.
C9_AbortEndsRun ==
    /\ failed.step # "none" =>
        /\ pc = "aborted"
        /\ IndexOf(failed.step, failed.cycle) = {}
        /\ \A j \in 1..Len(log) : log[j].cycle <= failed.cycle
        /\ Len(branches) = Len(PushEvents)
    /\ \A k \in 1..Len(PushEvents) :
        origin_heads[PushEvents[k].ref] = PushEvents[k].sha
    /\ pc = "done" =>
        branches = [k \in 1..Len(PushEvents) |-> PushEvents[k].ref]

\* the second cycle raised after the first had pushed its branch
C9_Witness ==
    /\ pc = "aborted"
    /\ failed.cycle = 2
    /\ failed.step \in {"reset", "overlay", "commit", "push"}
    /\ Len(PushEvents) = 1

(***************************************************************************)
(* C10                                                                     *)
(***************************************************************************)

\* C10: when create_remote fails because the remote exists the run goes on;
\* when it fails for another reason the run ends without a fetch, a selection
\* or a replay.
C10_OtherFailureIsFatal ==
    /\ registration = "exists" => failed.step # "create_remote"
    /\ registration = "other" =>
        /\ \A j \in 1..Len(log) : log[j].ev = "create_remote"
        /\ pc \in {"fetch", "aborted"}

(***************************************************************************)
(* C13, C20: the branch a cycle works on                                   *)
(***************************************************************************)

\* C13: in every cycle, HEAD is on the branch of the cycle when the reset and
\* when the commit step execute, and the commit the cycle created is the tip
\* of that branch.
C13_HeadOnCycleBranch ==
    /\ pc \in {"reset", "commit"} => head = branch
    /\ IndexOf("commit", cycle) # {} => heads[branch] = CycleCommit

\* C20: no reset and no commit of a cycle moves a local branch other than
\* the cycle's own, and the main branch is where it was before the first
\* run, whatever branches existed and wherever HEAD was.
C20_OnlyOwnBranchMoves ==
    /\ heads[MAIN] = MainSha
    /\ \A j \in 1..Len(log) :
           log[j].ev \in {"reset", "commit"} =>
               log[j].ref = BranchName(commits[log[j].cycle])

(***************************************************************************)
(* C14, C15, C16: the capture of the overlay map                           *)
(***************************************************************************)

\* the places in the log of the step `ev`, in any cycle
StepsOf(ev) == {j \in 1..Len(log) : log[j].ev = ev}

\* the cycle has captured its overlay map
CycleCaptured == IndexOf("capture", cycle) # {}

\* The tree the main branch had when the run started: the one the first
\* capture of the run read, nothing having moved a branch before it.
RunStartTree ==
    objects[log[CHOOSE j \in StepsOf("capture") :
                    \A i \in StepsOf("capture") : j <= i].sha].tree

\* C14: the overlay map of every cycle of a run is that of the tree the main
\* branch had when the run started: the same paths with the same bytes.
C14_SameOverlayEveryCycle ==
    CycleCaptured =>
        SeqRange(folders_from_main)
            = SeqRange(CaptureOverlay(RunStartTree, args.config_path))

\* C15: a run captures the overlay map once, and before every branch
\* checkout and every reset of the run.
C15_CapturedOncePerRun ==
    /\ Cardinality(StepsOf("capture")) <= 1
    /\ \A j \in StepsOf("capture") :
           \A i \in StepsOf("checkout") \cup StepsOf("reset") : j < i

\* the paths of the overlay map
OverlayPaths == {folders_from_main[k].path : k \in 1..Len(folders_from_main)}

\* C16: the keys of the overlay map are exactly the files of the main
\* branch's tree whose path starts with the config path; no subtree of the
\* tree is a key.
C16_KeysAreFiles ==
    CycleCaptured =>
        OverlayPaths = {p \in DOMAIN CapturedTree : StartsWith(p, args.config_path)}

(***************************************************************************)
(* C17                                                                     *)
(***************************************************************************)

\* the captured files at whose path the replayed commit has a directory
DirectoryConflicts ==
    {p \in OverlayPaths \cap DOMAIN CapturedTree : p \in TreeDirs(commits[cycle].tree)}

\* C17: when the reset of a cycle has left a directory at the path of a
\* captured file, the overlay step does not end the run; it leaves the
\* directory in place and restores the other paths.
C17_DirectoryConflictTolerated ==
    IndexOf("reset", cycle) # {} /\ DirectoryConflicts # {} =>
        /\ ~(failed.cycle = cycle /\ failed.step = "overlay")
        /\ IndexOf("overlay", cycle) # {} =>
               \A p \in OverlayPaths \cap DOMAIN CapturedTree :
                   IF p \in DirectoryConflicts THEN IsDir(wt, p)
                   ELSE IsFile(wt, p) /\ wt[p].data = CapturedTree[p]

(***************************************************************************)
(* C19                                                                     *)
(***************************************************************************)

\* lines 215-216
SourceDir == PathJoin(PathJoin(working_repo_dir, args.config_path), CIRCLECI)
DestinationDir == PathJoin(working_repo_dir, CIRCLECI)

\* the files below directory dir of the tree, by their path inside dir
FilesInside(tree, dir) ==
    LET n == Resolve(dir)
    IN  {<< SubSeq(q, Len(n) + 2, Len(q)), tree[q] >> :
            q \in {p \in DOMAIN tree : StartsWith(p, n \o <<"/">>)}}

\* C19: in a cycle that has copied the CI directory, with a CI directory
\* under the config path on disk, the top-level CI directory holds exactly
\* the files of the one under the config path, with the same bytes, on disk
\* and in the commit the cycle creates: no file of the replayed commit's own
\* top-level CI directory is left.
C19_CiDirectoryReplaced ==
    IndexOf("cicopy", cycle) # {} /\ IsDir(wt, SourceDir) =>
        /\ IsDir(wt, DestinationDir)
        /\ FilesInside(TreeOfFs(wt), DestinationDir) = FilesInside(TreeOfFs(wt), SourceDir)
        /\ IndexOf("commit", cycle) # {} =>
               FilesInside(objects[CycleCommit].tree, DestinationDir)
                   = FilesInside(TreeOfFs(wt), SourceDir)

\* a cycle has committed a replayed commit that had a CI directory of its
\* own, with the files of the one under the config path in its place
C19_Witness ==
    /\ IndexOf("commit", cycle) # {}
    /\ IsDir(wt, SourceDir)
    /\ FilesInside(commits[cycle].tree, DestinationDir) = {<< <<"u">>, <<"U">> >>}
    /\ FilesInside(objects[CycleCommit].tree, DestinationDir) = {<< <<"k">>, <<"A">> >>}

(***************************************************************************)
(* C11, C12, C18: export_blob                                              *)
(***************************************************************************)

\* the call of export_blob has ended, by returning or by raising
CallEnded == pc \in {"returned", "raised"}

\* C11: when the destination is a regular file at the call, export_blob
\* returns and the destination is then a regular file whose content is
\* exactly the new bytes.
C11_FileOverwritten ==
    CallEnded /\ IsFile(call.before, call.dst_path) =>
        /\ call.err = "ok"
        /\ IsFile(wt, call.dst_path)
        /\ wt[Resolve(call.dst_path)].data = call.data

\* a file two directories down was overwritten with other bytes
C11_Witness ==
    /\ pc = "returned"
    /\ IsFile(call.before, call.dst_path)
    /\ Depth(Resolve(call.dst_path)) = 3
    /\ call.before[Resolve(call.dst_path)].data # call.data
    /\ wt[Resolve(call.dst_path)].data = call.data

\* C12: when the destination is a directory at the call, export_blob returns
\* without raising and the working directory is as it was: nothing written,
\* removed or created.
C12_DirectoryUntouched ==
    CallEnded /\ IsDir(call.before, call.dst_path) =>
        /\ call.err = "ok"
        /\ wt = call.before

\* export_blob returned from a call on a directory that has entries
C12_Witness ==
    /\ pc = "returned"
    /\ IsDir(call.before, call.dst_path)
    /\ Below(call.before, Resolve(call.dst_path)) # {}
    /\ wt = call.before

\* a regular file is where a directory of the destination's parent path is
\* to be
FileOnParentPath(fs, dst_path) ==
    \E k \in 1..Len(Ancestors(Resolve(dst_path))) :
        IsFile(fs, Ancestors(Resolve(dst_path))[k])

\* C18: when the destination does not exist and a regular file is at a
\* segment of its parent path, whichever segment, export_blob returns and
\* the destination is a regular file with exactly the given bytes.
C18_ConflictAtAnySegment ==
    CallEnded /\ ~PathExists(call.before, call.dst_path)
              /\ FileOnParentPath(call.before, call.dst_path) =>
        /\ call.err = "ok"
        /\ IsFile(wt, call.dst_path)
        /\ wt[Resolve(call.dst_path)].data = call.data

\* What the code does achieve: the same when the file is at the last segment
\* of the parent path, the directory of a destination named without a final
\* slash.
ConflictAtLastSegment ==
    CallEnded /\ ~PathExists(call.before, call.dst_path)
              /\ IsFile(call.before, Dirname(call.dst_path))
              /\ call.dst_path[Len(call.dst_path)] # "/" =>
        /\ call.err = "ok"
        /\ IsFile(wt, call.dst_path)
        /\ wt[Resolve(call.dst_path)].data = call.data
        /\ IsDir(wt, Dirname(call.dst_path))

====
